---- MODULE Spec2Model ----
(***************************************************************************)
(* A model of the bytestream helper: the Writer (test/test.ts:669-1098),   *)
(* the Reader (unnamed/part_003) and the Varint codec (src/varint.ts).     *)
(*                                                                         *)
(* A BigInteger is a record [neg, mag]: mag is the magnitude as a          *)
(* little-endian sequence of base-256 limbs without high zero limbs.       *)
(* A Buffer is a sequence of bytes 0..255 (index 1 is byte 0).             *)
(* A string is a sequence of one-character strings.                        *)
(* big-integer is taken with native BigInt support (node >= 12), where the *)
(* conversion of a double to a BigInteger is exact.                        *)
(***************************************************************************)
EXTENDS Integers, Sequences, FiniteSets, TLC

VARIABLES w_buffer, r_made, r_buffer, r_offset, fields, nsync, last,
          r_shared, r_base, r_clean, r_calls, r2_ref, r2_buffer, r2_offset,
          r_log, w_stream

vars == <<w_buffer, r_made, r_buffer, r_offset, fields, nsync, last,
          r_shared, r_base, r_clean, r_calls, r2_ref, r2_buffer, r2_offset,
          r_log, w_stream>>

(***************************************************************************)
(* Bounds of the model.                                                    *)
(***************************************************************************)
MaxFields == 2
MaxCalls == 2
MaxWidthIdx == 11
MaxValBytes == 2
LoopBlock == 16

(***************************************************************************)
(* Integers of any size.                                                   *)
(***************************************************************************)
MaxOf(S) == CHOOSE m \in S : (m + 1) \notin S /\ \A k \in S : k <= m
MinOf(S) == CHOOSE m \in S : \A k \in S : m <= k

Normalize(s) ==
  IF Len(s) > 0 /\ s[Len(s)] # 0 THEN s
  ELSE LET nz == {i \in 1..Len(s) : s[i] # 0}
       IN IF nz = {} THEN <<>> ELSE SubSeq(s, 1, MaxOf(nz))

RECURSIVE LimbsOfNat(_)
LimbsOfNat(n) == IF n = 0 THEN <<>> ELSE <<n % 256>> \o LimbsOfNat(n \div 256)

BigInteger(n) ==
  IF n < 0 THEN [neg |-> TRUE, mag |-> LimbsOfNat(-n)]
           ELSE [neg |-> FALSE, mag |-> LimbsOfNat(n)]

Nat256(m) == [neg |-> FALSE, mag |-> Normalize(m)]
Zero == [neg |-> FALSE, mag |-> <<>>]

Limb(m, i) == IF i >= 1 /\ i <= Len(m) THEN m[i] ELSE 0

Rest(m) == IF m = <<>> THEN <<>> ELSE Tail(m)

CmpMag(a, b) ==
  IF Len(a) # Len(b) THEN (IF Len(a) < Len(b) THEN -1 ELSE 1)
  ELSE LET d == {i \in 1..Len(a) : a[i] # b[i]}
       IN IF d = {} THEN 0
          ELSE IF a[MaxOf(d)] < b[MaxOf(d)] THEN -1 ELSE 1

compare(x, y) ==
  IF x.neg # y.neg THEN (IF x.neg THEN -1 ELSE 1)
  ELSE IF x.neg THEN CmpMag(y.mag, x.mag) ELSE CmpMag(x.mag, y.mag)

\* addition with the carry into limb i looked up from the limbs below it
CarryInto(a, b, i) ==
  \E j \in 1..(i - 1) :
     /\ Limb(a, j) + Limb(b, j) >= 256
     /\ \A k \in (j + 1)..(i - 1) : Limb(a, k) + Limb(b, k) = 255

AddMag(a, b) ==
  LET n == IF Len(a) > Len(b) THEN Len(a) ELSE Len(b)
  IN Normalize([i \in 1..(n + 1) |->
       (Limb(a, i) + Limb(b, i) + (IF CarryInto(a, b, i) THEN 1 ELSE 0)) % 256])

ShiftLeftMag(a, k) ==
  LET q == k \div 8
      r == k % 8
  IN Normalize([i \in 1..(q + Len(a) + 1) |->
       IF i <= q THEN 0
       ELSE ((Limb(a, i - q) * (2^r)) % 256) + ((Limb(a, i - q - 1) * (2^r)) \div 256)])

ShiftRightMag(a, k) ==
  LET q == k \div 8
      r == k % 8
      n == IF Len(a) > q THEN Len(a) - q ELSE 0
  IN Normalize([i \in 1..n |->
       (Limb(a, i + q) \div (2^r)) + ((Limb(a, i + q + 1) % (2^r)) * (2^(8 - r)))])

\* long multiplication and division of a magnitude by a small number
RECURSIVE MulSmallC(_, _, _)
MulSmallC(a, k, c) ==
  IF a = <<>> THEN LimbsOfNat(c)
  ELSE LET p == a[1] * k + c
       IN <<p % 256>> \o MulSmallC(Tail(a), k, p \div 256)

MulSmall(a, k) == Normalize(MulSmallC(a, k, 0))

RECURSIVE DivSmallR(_, _, _)
DivSmallR(a, k, rem) ==
  \* a is read from its most significant limb; the quotient limbs come out
  \* most significant first
  IF a = <<>> THEN [q |-> <<>>, rem |-> rem]
  ELSE LET n == Len(a)
           cur == rem * 256 + a[n]
           t == DivSmallR(SubSeq(a, 1, n - 1), k, cur % k)
       IN [q |-> Append(t.q, cur \div k), rem |-> t.rem]

DivSmall(a, k) == Normalize(DivSmallR(a, k, 0).q)
ModSmall(a, k) == DivSmallR(a, k, 0).rem

Bit(x, i) == (x \div (2^i)) % 2

RECURSIVE And8R(_, _, _)
And8R(x, y, i) ==
  IF i > 7 THEN 0 ELSE (2^i) * Bit(x, i) * Bit(y, i) + And8R(x, y, i + 1)
And8(x, y) == And8R(x, y, 0)

RECURSIVE Or8R(_, _, _)
Or8R(x, y, i) ==
  IF i > 7 THEN 0
  ELSE (2^i) * (IF Bit(x, i) + Bit(y, i) > 0 THEN 1 ELSE 0) + Or8R(x, y, i + 1)
Or8(x, y) == Or8R(x, y, 0)

BitLen8(x) == IF x = 0 THEN 0 ELSE MaxOf({i \in 0..7 : Bit(x, i) = 1}) + 1

Pow2(k) == ShiftLeftMag(<<1>>, k)
Pow2m1(k) == Normalize([i \in 1..((k + 7) \div 8) |->
               IF 8 * i <= k THEN 255 ELSE (2^(k - 8 * (i - 1))) - 1])

(***************************************************************************)
(* Strings of hexadecimal digits and Buffers.                              *)
(***************************************************************************)
HexDigits == <<"0", "1", "2", "3", "4", "5", "6", "7",
               "8", "9", "a", "b", "c", "d", "e", "f">>

IsHexChar(c) == \E i \in 1..16 : HexDigits[i] = c
HexVal(c) == (CHOOSE i \in 1..16 : HexDigits[i] = c) - 1

\* Buffer.from(s, 'hex'): whole pairs of digits, up to the first pair that is
\* not hexadecimal
BufferFromHex(s) ==
  LET n == Len(s) \div 2
      bad == {i \in 1..n : ~(IsHexChar(s[2 * i - 1]) /\ IsHexChar(s[2 * i]))}
      m == IF bad = {} THEN n ELSE MinOf(bad) - 1
  IN [i \in 1..m |-> 16 * HexVal(s[2 * i - 1]) + HexVal(s[2 * i])]

\* buf.toString('hex')
BufferToHex(buf) ==
  [i \in 1..(2 * Len(buf)) |->
     HexDigits[(IF i % 2 = 1 THEN buf[(i + 1) \div 2] \div 16
                             ELSE buf[i \div 2] % 16) + 1]]

\* x.toString(16) of big-integer
toString16(x) ==
  LET m == x.mag
      n == Len(m)
      full == [i \in 1..(2 * n) |->
                 HexDigits[(IF i % 2 = 1 THEN m[n - ((i + 1) \div 2) + 1] \div 16
                                         ELSE m[n - (i \div 2) + 1] % 16) + 1]]
      digits == IF n = 0 THEN <<"0">>
                ELSE IF full[1] = "0" THEN Tail(full) ELSE full
  IN (IF x.neg THEN <<"-">> ELSE <<>>) \o digits

\* BigInteger(s, 16) of a string of hexadecimal digits ('' gives 0)
parseBase16(s) ==
  LET L == Len(s)
      nib(k) == IF k <= L THEN HexVal(s[L - k + 1]) ELSE 0
  IN Nat256([j \in 1..((L + 1) \div 2) |-> nib(2 * j - 1) + 16 * nib(2 * j)])

padStart(s, n, c) ==
  IF Len(s) >= n THEN s ELSE [i \in 1..(n - Len(s)) |-> c] \o s

\* buf.slice(start, end) of node: negative indexes count from the end, both
\* are clamped to the buffer
Slice(buf, start, end) ==
  LET n == Len(buf)
      clamp(i) == IF i < 0 THEN (IF n + i < 0 THEN 0 ELSE n + i)
                  ELSE IF i > n THEN n ELSE i
      s == clamp(start)
      e == clamp(end)
  IN IF e <= s THEN <<>> ELSE SubSeq(buf, s + 1, e)

Reverse(s) == [i \in 1..Len(s) |-> s[Len(s) - i + 1]]

(***************************************************************************)
(* Varint (src/varint.ts).                                                 *)
(***************************************************************************)
\* the exponent from which a double is Infinity
DoubleMaxExp == 1024

\* (b & 0x7f) * Math.pow(2, shift) is a finite double
FiniteProduct(lo, shift) ==
  /\ shift < DoubleMaxExp
  /\ (lo = 0 \/ BitLen8(lo) + shift <= DoubleMaxExp)

\* the do-while of decode ending without an error where the buffer ends
decodeStep_ends_quietly(buf, st) ==
  IF st.counter >= Len(buf) THEN [st EXCEPT !.done = TRUE]
  ELSE LET b == buf[st.counter + 1]
       IN [counter |-> st.counter + 1,
           shift |-> st.shift + 7,
           result |-> AddMag(st.result, ShiftLeftMag(LimbsOfNat(And8(b, 127)), st.shift)),
           err |-> "none",
           done |-> b < 128]

\* one iteration of the do-while of decode; the loop is evaluated in blocks of
\* LoopBlock iterations
decodeStep(buf, st) ==
  IF st.counter >= Len(buf)
  THEN [st EXCEPT !.err = "RangeError", !.done = TRUE]
  ELSE LET b == buf[st.counter + 1]
           lo == And8(b, 127)
       IN IF st.shift >= 28 /\ ~FiniteProduct(lo, st.shift)
          THEN \* result.add(Infinity) and result.add(NaN) throw
               [st EXCEPT !.err = "RangeError", !.done = TRUE]
          ELSE [counter |-> st.counter + 1,
                shift |-> st.shift + 7,
                result |-> AddMag(st.result, ShiftLeftMag(LimbsOfNat(lo), st.shift)),
                err |-> "none",
                done |-> b < 128]

RECURSIVE decodeBlock(_, _, _)
decodeBlock(buf, st, n) ==
  IF n = 0 \/ st.done THEN st ELSE decodeBlock(buf, decodeStep(buf, st), n - 1)

RECURSIVE decodeLoop(_, _)
decodeLoop(buf, st) ==
  LET s2 == decodeBlock(buf, st, LoopBlock)
  IN IF s2.done THEN s2 ELSE decodeLoop(buf, s2)

decode(buf) ==
  LET st == decodeLoop(buf, [counter |-> 0, shift |-> 0, result |-> <<>>,
                             err |-> "none", done |-> FALSE])
  IN [err |-> st.err, value |-> IF st.err = "none" THEN Nat256(st.result) ELSE Zero]

\* num.and(0xFF).or(0x80).toJSNumber()
ContinuationByte(mag) == Or8(And8(Limb(mag, 1), 255), 128)

\* num.divide(256): a whole byte dropped on every round of the first loop
divide128_by256(mag) == ShiftRightMag(mag, 8)

\* num.divide(128) of a non-negative num
divide128(mag) ==
  Normalize([i \in 1..Len(mag) |-> (mag[i] \div 128) + 2 * (Limb(mag, i + 1) % 128)])

\* num.and(~0x7F) of a non-negative num: the low seven bits cleared
AndNot7F(mag) ==
  Normalize([i \in 1..Len(mag) |-> IF i = 1 THEN mag[1] - (mag[1] % 128) ELSE mag[i]])

\* Both loops of encode are evaluated in blocks of LoopBlock iterations, which
\* keeps the depth of the evaluation small for numbers of a thousand bits.
\* first loop of encode: while (num >= 2^31) { ...; num = num.divide(128) }
DivideCond(st) == CmpMag(st.mag, Pow2(31)) >= 0
DivideStep(st) == [mag |-> divide128(st.mag), out |-> Append(st.out, ContinuationByte(st.mag))]

RECURSIVE encodeDivideBlock(_, _)
encodeDivideBlock(st, n) ==
  IF n = 0 \/ ~DivideCond(st) THEN st ELSE encodeDivideBlock(DivideStep(st), n - 1)

RECURSIVE encodeDivideLoop(_)
encodeDivideLoop(st) ==
  LET s2 == encodeDivideBlock(st, LoopBlock)
  IN IF DivideCond(s2) THEN encodeDivideLoop(s2) ELSE s2

\* second loop of encode: while (num & ~0x7F > 0) { ...; num = num >> 7 }
ShiftCond(st) == AndNot7F(st.mag) # <<>>
ShiftStep(st) == [mag |-> ShiftRightMag(st.mag, 7), out |-> Append(st.out, ContinuationByte(st.mag))]

RECURSIVE encodeShiftBlock(_, _)
encodeShiftBlock(st, n) ==
  IF n = 0 \/ ~ShiftCond(st) THEN st ELSE encodeShiftBlock(ShiftStep(st), n - 1)

RECURSIVE encodeShiftLoop(_)
encodeShiftLoop(st) ==
  LET s2 == encodeShiftBlock(st, LoopBlock)
  IN IF ShiftCond(s2) THEN encodeShiftLoop(s2) ELSE s2

encode(num) ==
  IF num.neg
  THEN \* neither loop runs for a negative num; Buffer.from keeps the low
       \* eight bits of the two's complement (|num| < 2^53)
       <<(256 - (Limb(num.mag, 1) % 256)) % 256>>
  ELSE LET a == encodeDivideLoop([mag |-> num.mag, out |-> <<>>])
           b == encodeShiftLoop(a)
       IN Append(b.out, Limb(b.mag, 1))

(***************************************************************************)
(* Writer (test/test.ts:669-1098).  Every method is an operator from the   *)
(* Writer's buffer and the arguments to the new buffer, the error thrown   *)
(* ("none" when the method returns) and the value returned.                *)
(***************************************************************************)
Returned(buffer, ret) == [buffer |-> buffer, err |-> "none", ret |-> ret]
Thrown(buffer, err) == [buffer |-> buffer, err |-> err, ret |-> FALSE]

\* write with the payload put in front of m_buffer
WriterWrite_in_front(w, payload) == Returned(payload \o w, TRUE)

\* write(payload) of a Buffer: m_buffer = Buffer.concat([m_buffer, buffer])
WriterWrite(w, payload) == Returned(w \o payload, TRUE)

\* write(payload, 'hex') of a string
WriterWriteString(w, payload) == Returned(w \o BufferFromHex(payload), TRUE)

DetermineBytes == <<1, 2, 4, 8, 16, 32, 64, 128, 256, 512, 1024>>

\* determineBits with value.compare(check) < 0 in the place of <= 0
determineBits_below(value) ==
  LET check(i) == IF compare(value, BigInteger(-1)) > 0
                  THEN Nat256(Pow2m1(8 * DetermineBytes[i]))
                  ELSE Nat256(Pow2m1(8 * DetermineBytes[i] - 1))
      fits == {i \in 1..Len(DetermineBytes) : compare(value, check(i)) < 0}
  IN IF fits = {} THEN [err |-> "RangeError", bits |-> 0]
     ELSE [err |-> "none", bits |-> 8 * DetermineBytes[MinOf(fits)]]

determineBits(value) ==
  LET check(i) == IF compare(value, BigInteger(-1)) > 0
                  THEN Nat256(Pow2m1(8 * DetermineBytes[i]))
                  ELSE Nat256(Pow2m1(8 * DetermineBytes[i] - 1))
      fits == {i \in 1..Len(DetermineBytes) : compare(value, check(i)) <= 0}
  IN IF fits = {} THEN [err |-> "RangeError", bits |-> 0]
     ELSE [err |-> "none", bits |-> 8 * DetermineBytes[MinOf(fits)]]

\* writeUIntBE without the padding of the digits
writeUIntBE_unpadded(value, bytes) == BufferFromHex(toString16(value))

writeUIntBE(value, bytes) ==
  BufferFromHex(padStart(toString16(value), bytes * 2, "0"))

writeUIntLE(value, bytes) ==
  LET buffer == BufferFromHex(padStart(toString16(value), bytes * 2, "0"))
  IN \* tempBuffer[position] = slice for position = bytes - 1, bytes - 2, ...;
     \* the assignments at a negative position do not change tempBuffer
     [i \in 1..bytes |-> IF bytes - i + 1 <= Len(buffer) THEN buffer[bytes - i + 1] ELSE 0]

\* uint_t without the test value.lesser(0)
Writer_uint_t_sign_untested(w, value, bits, be) ==
  LET db == IF bits = 0 THEN determineBits(value)
            ELSE [err |-> "none", bits |-> bits]
  IN IF db.err # "none" THEN Thrown(w, "RangeError")
     ELSE IF db.bits % 8 # 0 THEN Thrown(w, "Error")
     ELSE LET bytes == db.bits \div 8
              buf == IF be THEN writeUIntBE(value, bytes)
                           ELSE writeUIntLE(value, bytes)
          IN IF ~be /\ bytes < 0 THEN Thrown(w, "RangeError")
             ELSE WriterWrite(w, buf)

\* uint_t(value, bits, be); bits = 0 stands for an omitted width (!bits)
Writer_uint_t(w, value, bits, be) ==
  IF compare(value, Zero) < 0 THEN Thrown(w, "RangeError")
  ELSE LET db == IF bits = 0 THEN determineBits(value)
                 ELSE [err |-> "none", bits |-> bits]
       IN IF db.err # "none" THEN Thrown(w, "RangeError")
          ELSE IF db.bits % 8 # 0 THEN Thrown(w, "Error")
          ELSE LET bytes == db.bits \div 8
                   buf == IF be THEN writeUIntBE(value, bytes)
                                ELSE writeUIntLE(value, bytes)
               IN \* Buffer.alloc(bytes) of writeUIntLE throws when bytes < 0
                  IF ~be /\ bytes < 0 THEN Thrown(w, "RangeError")
                  ELSE WriterWrite(w, buf)

Writer_uint8_t(w, value) == Writer_uint_t(w, value, 8, FALSE)

\* uint8_t(value), uint16_t(value, be), ..., uint512_t(value, be)
Writer_uintN_t(w, value, n, be) ==
  IF n = 8 THEN Writer_uint8_t(w, value) ELSE Writer_uint_t(w, value, n, be)

\* value << 2 of a JS number as the unsigned 32-bit pattern of the int32
ShiftLeft2Int32(value) ==
  LET m == ShiftLeftMag(value.mag, 2)
      low == [i \in 1..4 |-> Limb(m, i)]
  IN IF ~value.neg THEN low
     ELSE \* two's complement of the low 32 bits
          LET inv == [i \in 1..4 |-> 255 - low[i]]
              plus == AddMag(Normalize(inv), <<1>>)
          IN [i \in 1..4 |-> Limb(plus, i)]

\* for (i = 0; i < byteCount; i++) this.uint8_t((tempValue >> i * 8) & 0xFF)
RECURSIVE WriteLevinBytes(_, _, _, _)
WriteLevinBytes(w, temp, i, byteCount) ==
  IF i >= byteCount THEN Returned(w, TRUE)
  ELSE LET r == Writer_uint8_t(w, BigInteger(temp[i + 1]))
       IN IF r.err # "none" THEN r
          ELSE WriteLevinBytes(r.buffer, temp, i + 1, byteCount)

LevinMax == BigInteger(1073741823)

Writer_varint(w, value, levin) ==
  IF ~levin THEN WriterWrite(w, encode(value))
  ELSE IF compare(value, LevinMax) > 0 THEN Thrown(w, "RangeError")
  ELSE LET shifted == ShiftLeft2Int32(value)
           class == IF compare(value, BigInteger(63)) <= 0 THEN 0
                    ELSE IF compare(value, BigInteger(16383)) <= 0 THEN 1
                    ELSE 2
           byteCount == IF class = 0 THEN 1 ELSE IF class = 1 THEN 2 ELSE 4
           tempValue == [shifted EXCEPT ![1] = Or8(shifted[1], class)]
       IN WriteLevinBytes(w, tempValue, 0, byteCount)

\* hash without the tests of the length
Writer_hash_any_length(w, hash) ==
  IF hash.kind = "buffer" THEN WriterWrite(w, hash.data)
  ELSE WriterWriteString(w, hash.data)

\* hash(hash): hash is [kind |-> "buffer", data |-> bytes] or
\* [kind |-> "string", data |-> characters]
Writer_hash(w, hash) ==
  IF hash.kind = "buffer" /\ Len(hash.data) = 32 THEN WriterWrite(w, hash.data)
  ELSE IF hash.kind = "string" /\ Len(hash.data) = 64 THEN WriterWriteString(w, hash.data)
  ELSE Returned(w, FALSE)

\* buf.swap64(): the bytes of every group of eight reversed in place
swap64(buf) ==
  IF Len(buf) % 8 # 0 THEN [err |-> "RangeError", buf |-> buf]
  ELSE [err |-> "none",
        buf |-> [i \in 1..Len(buf) |-> buf[8 * ((i - 1) \div 8) + 8 - ((i - 1) % 8)]]]

\* Math.round(ms / 1000) in the place of Math.floor
FloorSeconds_round(ms) ==
  IF ~ms.neg THEN Nat256(DivSmall(AddMag(ms.mag, LimbsOfNat(500)), 1000))
  ELSE [neg |-> TRUE, mag |-> DivSmall(AddMag(ms.mag, LimbsOfNat(499)), 1000)]

\* Math.floor(ms / 1000) of a Date of ms milliseconds
FloorSeconds(ms) ==
  IF ~ms.neg THEN Nat256(DivSmall(ms.mag, 1000))
  ELSE [neg |-> TRUE, mag |-> DivSmall(AddMag(ms.mag, LimbsOfNat(999)), 1000)]

\* time_t(value, be); the Date is given by its getTime()
Writer_time_t(w, value, be) ==
  LET num == FloorSeconds(value)
      hex == padStart(toString16(num), 16, "0")
      raw == BufferFromHex(hex)
      swapped == swap64(raw)
  IN IF be /\ swapped.err # "none" THEN Thrown(w, swapped.err)
     ELSE WriterWrite(w, IF be THEN swapped.buf ELSE raw)

\* hex(hex): hex is [kind |-> "buffer", data |-> bytes] or
\* [kind |-> "string", data |-> characters]
Writer_hex(w, hex) ==
  IF hex.kind = "buffer" THEN WriterWrite(w, hex.data)
  ELSE IF hex.kind = "string" THEN WriterWriteString(w, hex.data)
  ELSE Returned(w, FALSE)

\* write(payload) of a Buffer or of a string in hexadecimal
Writer_write(w, payload) ==
  IF payload.kind = "buffer" THEN WriterWrite(w, payload.data)
  ELSE WriterWriteString(w, payload.data)

\* clear(): m_buffer = Buffer.alloc(0)
Writer_clear(w) == Returned(<<>>, TRUE)

\* value fits the signed integers of n bytes (the test of buf.writeInt8,
\* writeInt16LE|BE and writeInt32LE|BE)
FitsIntN(value, n) ==
  IF value.neg THEN CmpMag(value.mag, Pow2(8 * n - 1)) <= 0
  ELSE CmpMag(value.mag, Pow2m1(8 * n - 1)) <= 0

\* the n bytes of the two's complement of value, least significant first
TwosComplement(value, n) ==
  IF ~value.neg \/ value.mag = <<>> THEN [i \in 1..n |-> Limb(value.mag, i)]
  ELSE LET inv == Normalize([i \in 1..n |-> 255 - Limb(value.mag, i)])
           plus == AddMag(inv, <<1>>)
       IN [i \in 1..n |-> Limb(plus, i)]

\* int_t(value, bits, be); bits = 0 stands for an omitted width (!bits)
Writer_int_t(w, value, bits, be) ==
  IF bits # 0 /\ bits % 8 # 0 THEN Thrown(w, "Error")
  ELSE LET db == IF bits = 0 THEN determineBits(value)
                 ELSE [err |-> "none", bits |-> bits]
       IN IF db.err # "none" THEN Thrown(w, "RangeError")
          ELSE LET bytes == db.bits \div 8
               IN \* Buffer.alloc(bytes) throws when bytes < 0
                  IF bytes < 0 THEN Thrown(w, "RangeError")
                  ELSE IF bytes \in {1, 2, 4}
                  THEN IF ~FitsIntN(value, bytes) THEN Thrown(w, "RangeError")
                       ELSE LET le == TwosComplement(value, bytes)
                            IN WriterWrite(w, IF be /\ bytes > 1 THEN Reverse(le) ELSE le)
                  ELSE Returned(w, FALSE)

\* the slice of _read taken one byte too long
ReadSlice_one_more(buf, readIndex, size) ==
  Slice(buf, readIndex, readIndex + size + 1)

\* the slice one round of _read(size) takes from m_buffer
ReadSlice(buf, readIndex, size) ==
  IF readIndex + size > Len(buf) THEN Slice(buf, readIndex, Len(buf))
  ELSE Slice(buf, readIndex, readIndex + size)

\* one round of the while loop of _read(size): push(slice) when the slice
\* has bytes, else push(null) and okToSend = false; m_readIndex += slice.length
Writer_read_round(buf, st) ==
  LET slice == ReadSlice(buf, st.readIndex, st.size)
  IN [st EXCEPT !.pushed = Append(st.pushed, [eos |-> Len(slice) = 0, data |-> slice]),
                !.running = Len(slice) > 0,
                !.readIndex = st.readIndex + Len(slice)]

\* blob: toString('hex') of the buffer
WriterBlob(w) == BufferToHex(w)

(***************************************************************************)
(* Reader (unnamed/part_003).  A reader is [buffer, offset]; every method  *)
(* is an operator to the reader after the call, the error thrown and the   *)
(* value returned.                                                         *)
(***************************************************************************)
ROk(buffer, offset, ret) == [buffer |-> buffer, offset |-> offset, err |-> "none", ret |-> ret]
RThrow(buffer, offset, err) == [buffer |-> buffer, offset |-> offset, err |-> err, ret |-> Zero]

\* new Reader(blob) of a hexadecimal string
ReaderFromString(blob) == [buffer |-> BufferFromHex(blob), offset |-> 0]

\* the length of the buffer taken for the number of unread bytes
unreadBytes_length(r) == Len(r.buffer)

unreadBytes(r) ==
  IF Len(r.buffer) - r.offset >= 0 THEN Len(r.buffer) - r.offset ELSE 0

Reader_bytes(r, count) ==
  ROk(r.buffer, r.offset + count, Slice(r.buffer, r.offset, r.offset + count))

Reader_hash(r, length) ==
  ROk(r.buffer, r.offset + length,
      BufferToHex(Slice(r.buffer, r.offset, r.offset + length)))

Reader_hex(r, count) ==
  ROk(r.buffer, r.offset + count,
      BufferToHex(Slice(r.buffer, r.offset, r.offset + count)))

readUIntBE(buffer, bytes, offset) ==
  IF Len(buffer) < offset + bytes THEN [err |-> "RangeError", value |-> Zero]
  ELSE [err |-> "none",
        value |-> parseBase16(BufferToHex(Slice(buffer, offset, offset + bytes)))]

\* readUIntLE without the reversal of the bytes
readUIntLE_unreversed(buffer, bytes, offset) == readUIntBE(buffer, bytes, offset)

readUIntLE(buffer, bytes, offset) ==
  IF Len(buffer) < offset + bytes THEN [err |-> "RangeError", value |-> Zero]
  ELSE IF bytes < 0 THEN [err |-> "RangeError", value |-> Zero] \* Buffer.alloc(bytes)
  ELSE LET buf == Slice(buffer, offset, offset + bytes)
           tempBuffer == [i \in 1..bytes |->
                            IF bytes - i + 1 <= Len(buf) THEN buf[bytes - i + 1] ELSE 0]
       IN [err |-> "none", value |-> parseBase16(BufferToHex(tempBuffer))]

Reader_uint_t(r, bits, be) ==
  IF bits % 8 # 0 THEN RThrow(r.buffer, r.offset, "Error")
  ELSE LET bytes == bits \div 8
       IN IF unreadBytes(r) < bytes THEN RThrow(r.buffer, r.offset, "Error")
          ELSE LET start == r.offset
                   v == IF be THEN readUIntBE(r.buffer, bytes, start)
                              ELSE readUIntLE(r.buffer, bytes, start)
               IN IF v.err # "none" THEN RThrow(r.buffer, start + bytes, v.err)
                  ELSE ROk(r.buffer, start + bytes, v.value)

Reader_uint8_t(r) == Reader_uint_t(r, 8, FALSE)

\* readInt8 / readInt16LE|BE / readInt32LE|BE of node at offset start
ReadIntN(buffer, n, start, be) ==
  IF start < 0 \/ start + n > Len(buffer) THEN [err |-> "RangeError", value |-> Zero]
  ELSE LET raw == SubSeq(buffer, start + 1, start + n)
           le == IF be THEN Reverse(raw) ELSE raw
       IN IF le[n] < 128 THEN [err |-> "none", value |-> Nat256(le)]
          ELSE \* negative: magnitude 2^(8n) - value
               [err |-> "none",
                value |-> [neg |-> TRUE,
                           mag |-> AddMag(Normalize([i \in 1..n |-> 255 - le[i]]), <<1>>)]]

\* int_t moving the cursor by 4 whatever the width
Reader_int_t_by_four(r, bits, be) ==
  IF bits % 8 # 0 THEN RThrow(r.buffer, r.offset, "Error")
  ELSE LET bytes == bits \div 8
       IN IF unreadBytes(r) < bytes THEN RThrow(r.buffer, r.offset, "Error")
          ELSE LET start == r.offset
               IN IF bytes \in {1, 2, 4}
                  THEN LET v == ReadIntN(r.buffer, bytes, start, be)
                       IN IF v.err # "none" THEN RThrow(r.buffer, start + 4, v.err)
                          ELSE ROk(r.buffer, start + 4, v.value)
                  ELSE RThrow(r.buffer, start + 4, "Error")

Reader_int_t(r, bits, be) ==
  IF bits % 8 # 0 THEN RThrow(r.buffer, r.offset, "Error")
  ELSE LET bytes == bits \div 8
       IN IF unreadBytes(r) < bytes THEN RThrow(r.buffer, r.offset, "Error")
          ELSE LET start == r.offset
               IN IF bytes \in {1, 2, 4}
                  THEN LET v == ReadIntN(r.buffer, bytes, start, be)
                       IN IF v.err # "none" THEN RThrow(r.buffer, start + bytes, v.err)
                          ELSE ROk(r.buffer, start + bytes, v.value)
                  ELSE RThrow(r.buffer, start + bytes, "Error")

\* the largest epoch in seconds of a valid Date: 8640000000000
MaxDateSeconds == MulSmall(MulSmall(LimbsOfNat(8640000), 1000), 1000)

\* new Date(epoch * 1000) by its getTime()
DateOfEpoch(epoch) ==
  IF CmpMag(epoch.mag, MaxDateSeconds) <= 0
  THEN [valid |-> TRUE, time |-> Nat256(MulSmall(epoch.mag, 1000))]
  ELSE [valid |-> FALSE, time |-> Zero]

\* time_t(be): swap64 works in place on the slice, which is a view of the
\* reader's buffer
Reader_time_t(r, be) ==
  LET start == r.offset
      b == Reader_bytes(r, 8)
      sw == swap64(b.ret)
      lo == IF start < 0 THEN (IF Len(r.buffer) + start < 0 THEN 0 ELSE Len(r.buffer) + start)
            ELSE start
      inplace == [i \in 1..Len(r.buffer) |->
                    IF i > lo /\ i <= lo + Len(b.ret) THEN sw.buf[i - lo] ELSE r.buffer[i]]
  IN IF be /\ sw.err # "none" THEN RThrow(r.buffer, b.offset, sw.err)
     ELSE IF be THEN ROk(inplace, b.offset, DateOfEpoch(parseBase16(BufferToHex(sw.buf))))
     ELSE ROk(r.buffer, b.offset, DateOfEpoch(parseBase16(BufferToHex(b.ret))))

\* m_buffer.readUInt8(offset)
readUInt8(buffer, offset) ==
  IF offset < 0 \/ offset >= Len(buffer) THEN [err |-> "RangeError", value |-> 0]
  ELSE [err |-> "none", value |-> buffer[offset + 1]]

\* the do-while of varint(peek, false): the offset of the first byte below 128
\* at or after the cursor; the loop ends by readUInt8 throwing when there is none
VarintScan(r) ==
  LET n == Len(r.buffer)
      ends == {i \in r.offset..(n - 1) : i >= 0 /\ r.buffer[i + 1] < 128}
  IN IF r.offset < 0 THEN [err |-> "RangeError", offset |-> r.offset]
     ELSE IF ends = {} THEN [err |-> "RangeError",
                             offset |-> IF r.offset > n THEN r.offset ELSE n]
     ELSE [err |-> "none", offset |-> MinOf(ends) + 1]

\* the size class taken for the number of additional bytes
LevinBytesLeft_mask(sizeMask) == sizeMask

\* the additional bytes of a Levin varint by its size class
LevinBytesLeft(sizeMask) ==
  IF sizeMask = 0 THEN 0 ELSE IF sizeMask = 1 THEN 1 ELSE IF sizeMask = 2 THEN 3 ELSE 7

\* for (i = 1; i <= bytesLeft; ++i) value = value.or(this.uint8_t().shiftLeft(i * 8))
RECURSIVE ReadLevinBytes(_, _, _, _)
ReadLevinBytes(r, value, i, bytesLeft) ==
  IF i > bytesLeft THEN ROk(r.buffer, r.offset, Nat256(value))
  ELSE LET b == Reader_uint8_t(r)
       IN IF b.err # "none" THEN b
          ELSE LET nv == ShiftLeftMag(b.ret.mag, i * 8)
                   n == IF Len(nv) > Len(value) THEN Len(nv) ELSE Len(value)
                   ored == [k \in 1..n |-> Or8(Limb(value, k), Limb(nv, k))]
               IN ReadLevinBytes([buffer |-> b.buffer, offset |-> b.offset],
                                 ored, i + 1, bytesLeft)

Reader_varint(r, peek, levin) ==
  IF ~levin
  THEN LET scan == VarintScan(r)
       IN IF scan.err # "none" THEN RThrow(r.buffer, scan.offset, scan.err)
          ELSE LET tmp == Slice(r.buffer, r.offset, scan.offset)
                   after == IF peek THEN r.offset ELSE scan.offset
                   d == decode(tmp)
               IN IF d.err # "none" THEN RThrow(r.buffer, after, d.err)
                  ELSE ROk(r.buffer, after, d.value)
  ELSE LET first == Reader_uint8_t(r)
       IN IF first.err # "none" THEN first
          ELSE LET sizeMask == And8(Limb(first.ret.mag, 1), 3)
                   all == ReadLevinBytes([buffer |-> first.buffer, offset |-> first.offset],
                                         first.ret.mag, 1, LevinBytesLeft(sizeMask))
               IN IF all.err # "none" THEN all
                  ELSE ROk(all.buffer, all.offset, Nat256(ShiftRightMag(all.ret.mag, 2)))

\* get unreadBuffer: m_buffer.slice(offset)
unreadBuffer(r) == Slice(r.buffer, r.offset, Len(r.buffer))

Reader_skip(r, count) == ROk(r.buffer, r.offset + count, FALSE)

Reader_reset(r, offset) == ROk(r.buffer, offset, FALSE)

\* compact() without the reset of the cursor
Reader_compact_cursor_kept(r, given, offset) ==
  ROk(Slice(r.buffer, IF given THEN offset ELSE r.offset, Len(r.buffer)), r.offset, FALSE)

\* compact(offset?): given tells that the argument is there
Reader_compact(r, given, offset) ==
  ROk(Slice(r.buffer, IF given THEN offset ELSE r.offset, Len(r.buffer)), 0, FALSE)

\* the index at which buffer.slice(start) starts
SliceStart(buf, start) ==
  IF start < 0 THEN (IF Len(buf) + start < 0 THEN 0 ELSE Len(buf) + start)
  ELSE IF start > Len(buf) THEN Len(buf) ELSE start

\* append(blob) with the new bytes put where the cursor stands
Reader_append_at_cursor(r, blob) ==
  LET data == IF blob.kind = "buffer" THEN blob.data ELSE BufferFromHex(blob.data)
  IN IF blob.kind = "string" /\ Len(blob.data) % 2 # 0
     THEN [buffer |-> r.buffer, offset |-> r.offset, err |-> "Error", ret |-> FALSE]
     ELSE ROk(Slice(r.buffer, 0, r.offset) \o data \o Slice(r.buffer, r.offset, Len(r.buffer)),
              r.offset, FALSE)

\* append(blob): blob is [kind |-> "buffer", data |-> bytes] (a Buffer, a
\* Uint8Array, or the buffer of a Reader or Writer) or [kind |-> "string",
\* data |-> characters]
Reader_append(r, blob) ==
  IF blob.kind = "buffer" THEN ROk(r.buffer \o blob.data, r.offset, FALSE)
  ELSE IF blob.kind = "string" /\ Len(blob.data) % 2 = 0
  THEN ROk(r.buffer \o BufferFromHex(blob.data), r.offset, FALSE)
  ELSE [buffer |-> r.buffer, offset |-> r.offset, err |-> "Error", ret |-> FALSE]

(***************************************************************************)
(* The state machine: one Writer, one Reader built from the Writer's blob, *)
(* the log of the fields written, and the record of the last call.         *)
(*                                                                         *)
(* r_shared tells that the Reader's m_buffer is a view of the memory of    *)
(* the Writer's m_buffer, starting r_base bytes into it.  r_clean tells    *)
(* that no call of the Reader has thrown, r_calls counts the calls.  A     *)
(* second handle of a Reader refers to the object of the first (r2_ref =   *)
(* 1) or to an object of its own (r2_ref = 2) with r2_buffer, r2_offset;   *)
(* r2_ref = 0 when there is no second handle.  r_log is the record of the  *)
(* calls the Reader has taken since its construction.  w_stream is the     *)
(* Readable side of the Writer: m_readIndex, the _read(size) under way     *)
(* (running, size, the read index it started from) and what it has pushed. *)
(***************************************************************************)
NoArgs == [value |-> Zero, bits |-> 0, be |-> FALSE, levin |-> FALSE,
           peek |-> FALSE, count |-> 0, given |-> FALSE]

Init ==
  /\ w_buffer = <<>>
  /\ r_made = FALSE
  /\ r_buffer = <<>>
  /\ r_offset = 0
  /\ fields = <<>>
  /\ nsync = -1
  /\ last = [side |-> "none", op |-> "none", args |-> NoArgs, err |-> "none",
             ret |-> FALSE, preW |-> <<>>, preR |-> <<>>, preOff |-> 0]
  /\ r_shared = FALSE
  /\ r_base = 0
  /\ r_clean = TRUE
  /\ r_calls = 0
  /\ r2_ref = 0
  /\ r2_buffer = <<>>
  /\ r2_offset = 0
  /\ r_log = <<>>
  /\ w_stream = [readIndex |-> 0, running |-> FALSE, size |-> 0, from |-> 0,
                 pushed |-> <<>>]

\* a call of a Writer method: res is the outcome, field the entry of the log
\* when the call has written its field
WriterCall(op, args, res, field) ==
  /\ w_buffer' = res.buffer
  /\ fields' = IF res.err = "none" /\ res.ret = TRUE
               THEN Append(fields, [field EXCEPT !.len = Len(res.buffer) - Len(w_buffer)])
               ELSE fields
  /\ nsync' = IF r_made THEN -1 ELSE nsync
  /\ last' = [side |-> "writer", op |-> op, args |-> args, err |-> res.err,
              ret |-> res.ret, preW |-> w_buffer, preR |-> r_buffer, preOff |-> r_offset]
  \* write() gives the Writer a new Buffer (Buffer.concat); a Reader that
  \* shared the old one keeps it
  /\ r_shared' = (r_shared /\ ~(res.err = "none" /\ res.ret = TRUE))
  /\ UNCHANGED <<r_made, r_buffer, r_offset, r_base, r_clean, r_calls,
                 r2_ref, r2_buffer, r2_offset, r_log, w_stream>>

Field(op, bits, be, levin, expect) ==
  [op |-> op, bits |-> bits, be |-> be, levin |-> levin, expect |-> expect, len |-> 0]

W_uint_t(value, bits, be) ==
  LET res == Writer_uint_t(w_buffer, value, bits, be)
      used == IF bits = 0 THEN determineBits(value).bits ELSE bits
  IN WriterCall("uint_t", [NoArgs EXCEPT !.value = value, !.bits = bits, !.be = be],
                res, Field("uint_t", used, be, FALSE, value))

W_uintN_t(value, n, be) ==
  WriterCall("uintN_t", [NoArgs EXCEPT !.value = value, !.bits = n, !.be = be],
             Writer_uintN_t(w_buffer, value, n, be),
             Field("uint_t", n, IF n = 8 THEN FALSE ELSE be, FALSE, value))

W_varint(value, levin) ==
  WriterCall("varint", [NoArgs EXCEPT !.value = value, !.levin = levin],
             Writer_varint(w_buffer, value, levin),
             Field("varint", 0, FALSE, levin, value))

W_hash(hash) ==
  WriterCall("hash", [NoArgs EXCEPT !.value = hash],
             Writer_hash(w_buffer, hash),
             Field("hash", 0, FALSE, FALSE,
                   IF hash.kind = "buffer" THEN BufferToHex(hash.data) ELSE hash.data))

\* time_t of the Date of sec whole seconds and ms milliseconds after the epoch
W_time_t(sec, ms, be) ==
  LET whole == MulSmall(sec, 1000)
      date == Nat256(AddMag(whole, LimbsOfNat(ms)))
  IN WriterCall("time_t", [NoArgs EXCEPT !.value = date, !.be = be],
                Writer_time_t(w_buffer, date, be),
                Field("time_t", 0, be, FALSE, [valid |-> TRUE, time |-> Nat256(whole)]))

\* time_t of a Date before the epoch
W_time_t_negative(ms, be) ==
  LET date == [neg |-> TRUE, mag |-> LimbsOfNat(ms)]
  IN WriterCall("time_t", [NoArgs EXCEPT !.value = date, !.be = be],
                Writer_time_t(w_buffer, date, be),
                Field("time_t", 0, be, FALSE, [valid |-> TRUE, time |-> date]))

W_int_t(value, bits, be) ==
  LET used == IF bits = 0 THEN determineBits(value).bits ELSE bits
  IN WriterCall("int_t", [NoArgs EXCEPT !.value = value, !.bits = bits, !.be = be],
                Writer_int_t(w_buffer, value, bits, be),
                Field("int_t", used, be, FALSE, value))

W_hex(hex) ==
  WriterCall("hex", [NoArgs EXCEPT !.value = hex], Writer_hex(w_buffer, hex),
             Field("hex", 0, FALSE, FALSE,
                   IF hex.kind = "buffer" THEN BufferToHex(hex.data) ELSE hex.data))

W_write(payload) ==
  WriterCall("write", [NoArgs EXCEPT !.value = payload], Writer_write(w_buffer, payload),
             Field("write", 0, FALSE, FALSE,
                   IF payload.kind = "buffer" THEN BufferToHex(payload.data)
                   ELSE payload.data))

\* clear() gives the Writer an empty Buffer; the log of the fields starts anew
W_clear ==
  /\ w_buffer' = Writer_clear(w_buffer).buffer
  /\ fields' = <<>>
  /\ nsync' = IF r_made THEN -1 ELSE nsync
  /\ last' = [side |-> "writer", op |-> "clear", args |-> NoArgs, err |-> "none",
              ret |-> TRUE, preW |-> w_buffer, preR |-> r_buffer, preOff |-> r_offset]
  /\ r_shared' = FALSE
  /\ UNCHANGED <<r_made, r_buffer, r_offset, r_base, r_clean, r_calls,
                 r2_ref, r2_buffer, r2_offset, r_log, w_stream>>

\* _read(size) is entered: okToSend = true
W_read(size) ==
  /\ ~w_stream.running
  /\ w_stream' = [w_stream EXCEPT !.running = TRUE, !.size = size,
                                  !.from = w_stream.readIndex, !.pushed = <<>>]
  /\ last' = [side |-> "writer", op |-> "_read", args |-> [NoArgs EXCEPT !.count = size],
              err |-> "none", ret |-> FALSE, preW |-> w_buffer, preR |-> r_buffer,
              preOff |-> r_offset]
  /\ UNCHANGED <<w_buffer, r_made, r_buffer, r_offset, fields, nsync, r_shared, r_base,
                 r_clean, r_calls, r2_ref, r2_buffer, r2_offset, r_log>>

\* one round of the loop of the _read under way
W_read_round ==
  /\ w_stream.running
  /\ w_stream' = Writer_read_round(w_buffer, w_stream)
  /\ UNCHANGED <<w_buffer, r_made, r_buffer, r_offset, fields, nsync, last, r_shared,
                 r_base, r_clean, r_calls, r2_ref, r2_buffer, r2_offset, r_log>>

\* new Reader(writer.blob)
NewReader ==
  /\ ~r_made
  /\ LET r == ReaderFromString(WriterBlob(w_buffer))
     IN /\ r_buffer' = r.buffer
        /\ r_offset' = r.offset
        /\ last' = [side |-> "reader", op |-> "new", args |-> NoArgs, err |-> "none",
                    ret |-> FALSE, preW |-> w_buffer, preR |-> r_buffer,
                    preOff |-> r_offset]
  /\ r_made' = TRUE
  /\ nsync' = 0
  /\ r_shared' = FALSE
  /\ r_base' = 0
  /\ r_clean' = TRUE
  /\ r_calls' = 0
  /\ r_log' = <<>>
  /\ UNCHANGED <<w_buffer, fields, r2_ref, r2_buffer, r2_offset, w_stream>>

\* new Reader(writer) and new Reader(writer.buffer): m_buffer is the Buffer
\* object of the Writer itself (blob.buffer, or the blob), the cursor is 0
ReaderFromWriter(w) == [buffer |-> w, offset |-> 0]

NewReaderShared(op) ==
  /\ ~r_made
  /\ LET r == ReaderFromWriter(w_buffer)
     IN /\ r_buffer' = r.buffer
        /\ r_offset' = r.offset
        /\ last' = [side |-> "reader", op |-> op, args |-> NoArgs, err |-> "none",
                    ret |-> FALSE, preW |-> w_buffer, preR |-> r_buffer,
                    preOff |-> r_offset]
  /\ r_made' = TRUE
  /\ nsync' = 0
  /\ r_shared' = TRUE
  /\ r_base' = 0
  /\ r_clean' = TRUE
  /\ r_calls' = 0
  /\ r_log' = <<>>
  /\ UNCHANGED <<w_buffer, fields, r2_ref, r2_buffer, r2_offset, w_stream>>

\* new Reader(writer)
NewReaderFromWriter == NewReaderShared("new_writer")

\* new Reader(writer.buffer)
NewReaderFromBuffer == NewReaderShared("new_buffer")

\* new Reader(s) of a string s: the constructor has no throw on this path
NewReaderFromString(s) ==
  /\ ~r_made
  /\ LET r == ReaderFromString(s)
     IN /\ r_buffer' = r.buffer
        /\ r_offset' = r.offset
        /\ last' = [side |-> "reader", op |-> "new_string",
                    args |-> [NoArgs EXCEPT !.value = [kind |-> "string", data |-> s]],
                    err |-> "none", ret |-> FALSE, preW |-> w_buffer,
                    preR |-> r_buffer, preOff |-> r_offset]
  /\ r_made' = TRUE
  /\ nsync' = -1
  /\ r_shared' = FALSE
  /\ r_base' = 0
  /\ r_clean' = TRUE
  /\ r_calls' = 0
  /\ r_log' = <<>>
  /\ UNCHANGED <<w_buffer, fields, r2_ref, r2_buffer, r2_offset, w_stream>>

Rd == [buffer |-> r_buffer, offset |-> r_offset]

\* the call is the read of the next field of the log, with its parameters
Matches(op, args) ==
  /\ nsync >= 0
  /\ nsync < Len(fields)
  /\ ~args.peek
  /\ LET f == fields[nsync + 1]
     IN /\ f.op = op
        /\ op \in {"uint_t", "int_t"} => (f.bits = args.bits /\ f.be = args.be)
        /\ op = "varint" => f.levin = args.levin
        /\ op = "time_t" => f.be = args.be
        /\ op = "hash" => args.count = 32

\* the bytes of view laid over buf from index base on
Overlay(buf, base, view) ==
  [i \in 1..Len(buf) |-> IF i > base /\ i <= base + Len(view) THEN view[i - base] ELSE buf[i]]

\* a call of a method of the Reader through its first handle (side "reader")
\* or through the second handle when that refers to the same object (side
\* "reader2").  keep tells that m_buffer is still a Buffer over the same
\* memory after the call, shift by how many bytes its start has moved.
ReaderCallMem(side, op, args, res, keep, shift) ==
  /\ r_made
  /\ r_buffer' = res.buffer
  /\ r_offset' = res.offset
  /\ r_shared' = (r_shared /\ keep)
  /\ r_base' = IF r_shared /\ keep THEN r_base + shift ELSE 0
  /\ w_buffer' = IF r_shared /\ keep THEN Overlay(w_buffer, r_base + shift, res.buffer)
                 ELSE w_buffer
  /\ nsync' = IF Matches(op, args) THEN nsync + 1 ELSE -1
  /\ last' = [side |-> side, op |-> op, args |-> args, err |-> res.err,
              ret |-> res.ret, preW |-> w_buffer, preR |-> r_buffer, preOff |-> r_offset]
  /\ r_clean' = (r_clean /\ res.err = "none")
  /\ r_calls' = r_calls + 1
  /\ r_log' = Append(r_log, [op |-> op, args |-> args, err |-> res.err, ret |-> res.ret,
                              buffer |-> r_buffer])
  /\ UNCHANGED <<r_made, fields, r2_ref, r2_buffer, r2_offset, w_stream>>

ReaderCall(op, args, res) == ReaderCallMem("reader", op, args, res, TRUE, 0)

R_uint_t(bits, be) ==
  ReaderCall("uint_t", [NoArgs EXCEPT !.bits = bits, !.be = be], Reader_uint_t(Rd, bits, be))

R_int_t(bits, be) ==
  ReaderCall("int_t", [NoArgs EXCEPT !.bits = bits, !.be = be], Reader_int_t(Rd, bits, be))

R_bytes(count) ==
  ReaderCall("bytes", [NoArgs EXCEPT !.count = count], Reader_bytes(Rd, count))

R_hex(count) ==
  ReaderCall("hex", [NoArgs EXCEPT !.count = count], Reader_hex(Rd, count))

R_hash(length) ==
  ReaderCall("hash", [NoArgs EXCEPT !.count = length], Reader_hash(Rd, length))

R_time_t(be) ==
  ReaderCall("time_t", [NoArgs EXCEPT !.be = be], Reader_time_t(Rd, be))

R_varint(peek, levin) ==
  ReaderCall("varint", [NoArgs EXCEPT !.peek = peek, !.levin = levin],
             Reader_varint(Rd, peek, levin))

R_skip(count) ==
  ReaderCall("skip", [NoArgs EXCEPT !.count = count], Reader_skip(Rd, count))

R_reset(offset) ==
  ReaderCall("reset", [NoArgs EXCEPT !.count = offset], Reader_reset(Rd, offset))

\* m_buffer becomes a slice, a view of the same memory
R_compact(given, offset) ==
  ReaderCallMem("reader", "compact", [NoArgs EXCEPT !.given = given, !.count = offset],
                Reader_compact(Rd, given, offset), TRUE,
                SliceStart(r_buffer, IF given THEN offset ELSE r_offset))

\* m_buffer becomes a new Buffer (Buffer.concat) unless append throws
R_append(blob) ==
  LET res == Reader_append(Rd, blob)
  IN ReaderCallMem("reader", "append", [NoArgs EXCEPT !.value = blob], res,
                   res.err # "none", 0)

\* new Reader(blob) of a Reader: a constructor that copied would take the
\* bytes and start at 0
ReaderFromReader_copy(blob) ==
  [same |-> FALSE, buffer |-> blob.buffer, offset |-> 0]

\* new Reader(blob) of a Reader: `return blob` makes the expression evaluate
\* to the object passed in; its fields are left as they are
ReaderFromReader(blob) ==
  [same |-> TRUE, buffer |-> blob.buffer, offset |-> blob.offset]

\* r2 = new Reader(r)
NewReader2 ==
  /\ r_made
  /\ r2_ref = 0
  /\ LET made == ReaderFromReader(Rd)
     IN /\ r2_ref' = IF made.same THEN 1 ELSE 2
        /\ r2_buffer' = IF made.same THEN <<>> ELSE made.buffer
        /\ r2_offset' = IF made.same THEN 0 ELSE made.offset
  /\ last' = [side |-> "reader2", op |-> "new_reader", args |-> NoArgs, err |-> "none",
              ret |-> FALSE, preW |-> w_buffer, preR |-> r_buffer, preOff |-> r_offset]
  /\ UNCHANGED <<w_buffer, r_made, r_buffer, r_offset, fields, nsync,
                 r_shared, r_base, r_clean, r_calls, r_log, w_stream>>

\* the Reader the second handle refers to
Rd2 == IF r2_ref = 2 THEN [buffer |-> r2_buffer, offset |-> r2_offset] ELSE Rd

\* a call through the second handle acts on the object it refers to
Reader2Call(op, args, res, keep, shift) ==
  /\ r2_ref # 0
  /\ IF r2_ref = 1 THEN ReaderCallMem("reader2", op, args, res, keep, shift)
     ELSE /\ r2_buffer' = res.buffer
          /\ r2_offset' = res.offset
          /\ nsync' = -1
          /\ last' = [side |-> "reader2", op |-> op, args |-> args, err |-> res.err,
                      ret |-> res.ret, preW |-> w_buffer, preR |-> r2_buffer,
                      preOff |-> r2_offset]
          /\ r_calls' = r_calls + 1
          /\ UNCHANGED <<w_buffer, r_made, r_buffer, r_offset, fields,
                         r_shared, r_base, r_clean, r2_ref, r_log, w_stream>>

R2_bytes(count) ==
  Reader2Call("bytes", [NoArgs EXCEPT !.count = count], Reader_bytes(Rd2, count), TRUE, 0)

R2_skip(count) ==
  Reader2Call("skip", [NoArgs EXCEPT !.count = count], Reader_skip(Rd2, count), TRUE, 0)

R2_reset(offset) ==
  Reader2Call("reset", [NoArgs EXCEPT !.count = offset], Reader_reset(Rd2, offset), TRUE, 0)

R2_compact(given, offset) ==
  Reader2Call("compact", [NoArgs EXCEPT !.given = given, !.count = offset],
              Reader_compact(Rd2, given, offset), TRUE,
              SliceStart(Rd2.buffer, IF given THEN offset ELSE Rd2.offset))

R2_append(blob) ==
  LET res == Reader_append(Rd2, blob)
  IN Reader2Call("append", [NoArgs EXCEPT !.value = blob], res, res.err # "none", 0)

(***************************************************************************)
(* Inputs.                                                                 *)
(***************************************************************************)
ByteSamples == {0, 1, 127, 128, 255}

\* the magnitudes of at most MaxValBytes bytes drawn from ByteSamples
SampleMags ==
  {Normalize(s) : s \in UNION {[1..k -> ByteSamples] : k \in 0..MaxValBytes}}

SampleValues == {Nat256(m) : m \in SampleMags}

\* the widths 8, 16, 32, ... bits
Width(i) == 8 * (2^(i - 1))
Widths == {Width(i) : i \in 1..MaxWidthIdx}

\* 0, 1, 2^(b-1), 2^b - 1, (2^b - 1) / 2 and, up to 64 bits, the samples
UintValues(b) ==
  {Zero, BigInteger(1), Nat256(Pow2(b - 1)), Nat256(Pow2m1(b)), Nat256(Pow2m1(b - 1))}
    \cup (IF b <= 64 THEN SampleValues ELSE {})

InRange(value, bits) == ~value.neg /\ CmpMag(value.mag, Pow2m1(bits)) <= 0

(***************************************************************************)
(* SpecUint: one uint_t written by a fresh Writer, a Reader built from the *)
(* blob, one uint_t read.                                                  *)
(***************************************************************************)
FreshWriter == ~r_made /\ fields = <<>> /\ last.side = "none"

NextUint ==
  \/ \E b \in Widths, be \in BOOLEAN : \E x \in UintValues(b) :
        FreshWriter /\ W_uint_t(x, b, be)
  \/ NewReader
  \/ \E b \in Widths, be \in BOOLEAN : nsync = 0 /\ R_uint_t(b, be)

SpecUint == Init /\ [][NextUint]_vars

\* the last call is the read that matches the one field written
ReadBack(op) ==
  /\ Len(fields) = 1
  /\ fields[1].op = op
  /\ nsync = 1
  /\ last.side = "reader"
  /\ last.op = op

\* C1: a uint_t of width b written with a value in 0 .. 2^b - 1 is read back
\* by uint_t(b, be) of a Reader of the blob as the same value, for every width
\* 8, 16, ..., 8192 and both byte orders.
C1_UintRoundTrip ==
  (ReadBack("uint_t") /\ InRange(fields[1].expect, fields[1].bits))
    => (last.err = "none" /\ last.ret = fields[1].expect)

C1_Witness ==
  /\ ReadBack("uint_t")
  /\ fields[1].bits = 8192
  /\ ~fields[1].be
  /\ fields[1].expect = Nat256(Pow2m1(8191))
  /\ last.ret = fields[1].expect

(***************************************************************************)
(* SpecVarint: one varint written by a fresh Writer, a Reader built from   *)
(* the blob, one varint read.                                              *)
(***************************************************************************)
VarintValues ==
  SampleValues \cup
    {Nat256(Pow2m1(31)), Nat256(Pow2(31)), Nat256(Pow2(32)), Nat256(Pow2(53)),
     Nat256(Pow2m1(63)), Nat256(Pow2m1(64)), Nat256(Pow2(64)),
     Nat256(Pow2m1(DoubleMaxExp)), Nat256(Pow2(DoubleMaxExp))}

NextVarint ==
  \/ \E x \in VarintValues : FreshWriter /\ W_varint(x, FALSE)
  \/ NewReader
  \/ \E peek \in BOOLEAN : nsync = 0 /\ R_varint(peek, FALSE)

SpecVarint == Init /\ [][NextVarint]_vars

\* the bytes the last call of the Writer has appended
Appended == SubSeq(w_buffer, Len(last.preW) + 1, Len(w_buffer))

LastWrite(op) == last.side = "writer" /\ last.op = op

\* C2: for every non-negative x, Varint.decode(Varint.encode(x)) = x, and
\* Reader.varint() over the blob of Writer.varint(x) returns x.
C2_VarintRoundTrip ==
  /\ (LastWrite("varint") /\ ~last.args.levin /\ ~last.args.value.neg)
       => decode(encode(last.args.value)) = [err |-> "none", value |-> last.args.value]
  /\ (ReadBack("varint") /\ ~fields[1].levin /\ ~fields[1].expect.neg)
       => (last.err = "none" /\ last.ret = fields[1].expect)

\* bit k of a magnitude
BitOfMag(mag, k) == Bit(Limb(mag, (k \div 8) + 1), k % 8)

BitLenMag(mag) ==
  IF mag = <<>> THEN 0 ELSE 8 * (Len(mag) - 1) + BitLen8(mag[Len(mag)])

\* the reference LEB128 form: the minimal number of groups of seven bits,
\* least significant first, bit 0x80 set on all but the last
RefLEB128(mag) ==
  LET n == IF mag = <<>> THEN 1 ELSE (BitLenMag(mag) + 6) \div 7
      group(i) == BitOfMag(mag, 7 * i) + 2 * BitOfMag(mag, 7 * i + 1)
                  + 4 * BitOfMag(mag, 7 * i + 2) + 8 * BitOfMag(mag, 7 * i + 3)
                  + 16 * BitOfMag(mag, 7 * i + 4) + 32 * BitOfMag(mag, 7 * i + 5)
                  + 64 * BitOfMag(mag, 7 * i + 6)
  IN [i \in 1..n |-> group(i - 1) + (IF i < n THEN 128 ELSE 0)]

\* C3: Varint.encode(x) of a non-negative x is the reference LEB128 encoding
\* of x, whether x is at or above 2^31 (the divide loop runs) or below it.
C3_EncodeIsLEB128 ==
  (LastWrite("varint") /\ ~last.args.levin /\ ~last.args.value.neg)
    => (last.err = "none" /\ Appended = RefLEB128(last.args.value.mag))

C3_Witness ==
  /\ LastWrite("varint")
  /\ last.args.value = Nat256(Pow2m1(64))
  /\ Appended = <<255, 255, 255, 255, 255, 255, 255, 255, 255, 1>>

(***************************************************************************)
(* SpecLevin: one Levin varint written by a fresh Writer, a Reader built   *)
(* from the blob, one Levin varint read.                                   *)
(***************************************************************************)
LevinValues ==
  SampleValues \cup
    {BigInteger(63), BigInteger(64), BigInteger(16383), BigInteger(16384),
     BigInteger(32767), BigInteger(536870911), BigInteger(536870912),
     BigInteger(1073741823), BigInteger(1073741824), Nat256(Pow2(32)),
     BigInteger(-1), BigInteger(-64), BigInteger(-16384)}

NextLevin ==
  \/ \E x \in LevinValues : FreshWriter /\ W_varint(x, TRUE)
  \/ NewReader
  \/ \E peek \in BOOLEAN : nsync = 0 /\ R_varint(peek, TRUE)

SpecLevin == Init /\ [][NextLevin]_vars

InLevinRange(x) == ~x.neg /\ compare(x, BigInteger(1073741823)) <= 0

LevinClass(x) ==
  IF compare(x, BigInteger(63)) <= 0 THEN 0
  ELSE IF compare(x, BigInteger(16383)) <= 0 THEN 1 ELSE 2

\* C4: Writer.varint(x, true) of x in 0 .. 1073741823 appends 1, 2 or 4 bytes
\* by the size class of x, the low two bits of the first byte are the size
\* class, and Reader.varint(false, true) over the blob returns x.
C4_LevinRoundTrip ==
  /\ (LastWrite("varint") /\ last.args.levin /\ InLevinRange(last.args.value))
       => /\ last.err = "none"
          /\ Len(Appended) = (IF LevinClass(last.args.value) = 0 THEN 1
                              ELSE IF LevinClass(last.args.value) = 1 THEN 2 ELSE 4)
          /\ Appended[1] % 4 = LevinClass(last.args.value)
  /\ (ReadBack("varint") /\ fields[1].levin /\ InLevinRange(fields[1].expect))
       => (last.err = "none" /\ last.ret = fields[1].expect)

C4_Witness ==
  /\ ReadBack("varint")
  /\ fields[1].levin
  /\ fields[1].expect = BigInteger(1073741823)
  /\ r_buffer = <<254, 255, 255, 255>>
  /\ last.ret = BigInteger(1073741823)

\* C5: Writer.varint(x, true) with x outside 0 .. 1073741823 throws a range
\* error and appends nothing.
C5_LevinRangeError ==
  (LastWrite("varint") /\ last.args.levin /\ ~InLevinRange(last.args.value))
    => (last.err = "RangeError" /\ w_buffer = last.preW)

(***************************************************************************)
(* SpecTime: one time_t written by a fresh Writer, a Reader built from the *)
(* blob, one time_t read.                                                  *)
(***************************************************************************)
TimeSeconds ==
  SampleMags \cup
    {LimbsOfNat(1577282076), Pow2m1(32), Pow2(32), Pow2(40), MaxDateSeconds}

TimeMillis == {0, 1, 999}

NextTime ==
  \/ \E s \in TimeSeconds, ms \in TimeMillis, be \in BOOLEAN :
        /\ FreshWriter
        /\ (s = MaxDateSeconds => ms = 0)
        /\ W_time_t(s, ms, be)
  \/ \E ms \in {1, 1000, 1001}, be \in BOOLEAN :
        FreshWriter /\ W_time_t_negative(ms, be)
  \/ NewReader
  \/ \E be \in BOOLEAN : nsync = 0 /\ R_time_t(be)

SpecTime == Init /\ [][NextTime]_vars

\* C6: Writer.time_t(d, be) of a Date at or after the epoch appends 8 bytes,
\* and Reader.time_t(be) over the blob returns the instant of the whole
\* seconds of d, for be = false and for be = true.
C6_TimeRoundTrip ==
  /\ (LastWrite("time_t") /\ ~last.args.value.neg)
       => (last.err = "none" /\ Len(Appended) = 8)
  /\ (ReadBack("time_t") /\ ~fields[1].expect.time.neg)
       => (last.err = "none" /\ last.ret = fields[1].expect)

C6_Witness ==
  /\ ReadBack("time_t")
  /\ fields[1].be
  /\ fields[1].expect.time = Nat256(MulSmall(LimbsOfNat(1577282076), 1000))
  /\ last.preR = <<28, 106, 3, 94, 0, 0, 0, 0>>
  /\ last.ret = fields[1].expect

\* C7: the bytes appended by Writer.time_t(d, be) are the bytes appended by
\* Writer.uint_t(floor(d.getTime() / 1000), 64, be) with the same be.
C7_TimeIsUint64 ==
  (LastWrite("time_t") /\ last.err = "none")
    => Appended = Writer_uint_t(<<>>, FloorSeconds(last.args.value), 64, last.args.be).buffer


(***************************************************************************)
(* Spec: a fresh Writer takes up to MaxFields typed writes, a Reader is    *)
(* built from the blob, and the Reader takes typed reads; the reads go on  *)
(* for as long as they are the reads of the fields in the order written.   *)
(***************************************************************************)
SeqWidths == {8, 512}

\* one value per width, of bytes 01 02 03 ... from the least significant
SeqUint(b) == Nat256([i \in 1..(b \div 8) |-> i])

SeqVarints == {BigInteger(300), Nat256(Pow2(DoubleMaxExp))}

SeqLevins == {BigInteger(16384)}

SeqHashes ==
  {[kind |-> "buffer", data |-> [i \in 1..32 |-> 4 * i + 2]],
   [kind |-> "string", data |-> BufferToHex([i \in 1..32 |-> 100 - i])]}

SeqSeconds == LimbsOfNat(1577282076)

ReadWidths == {8, 12, 64, 512}

ReadIntWidths == {8, 12, 16, 32, 64}

ReadCounts == {1, 9}

CanWrite == ~r_made /\ Len(fields) < MaxFields

Next ==
  \/ \E b \in SeqWidths, be \in BOOLEAN : CanWrite /\ W_uint_t(SeqUint(b), b, be)
  \/ \E x \in SeqVarints : CanWrite /\ W_varint(x, FALSE)
  \/ \E x \in SeqLevins : CanWrite /\ W_varint(x, TRUE)
  \/ \E h \in SeqHashes : CanWrite /\ W_hash(h)
  \/ \E be \in BOOLEAN : CanWrite /\ W_time_t(SeqSeconds, 999, be)
  \/ NewReader
  \/ \E b \in ReadWidths, be \in BOOLEAN : nsync >= 0 /\ R_uint_t(b, be)
  \/ \E b \in ReadIntWidths, be \in BOOLEAN : nsync >= 0 /\ R_int_t(b, be)
  \/ \E n \in ReadCounts : nsync >= 0 /\ R_bytes(n)
  \/ \E n \in ReadCounts : nsync >= 0 /\ R_hex(n)
  \/ nsync >= 0 /\ R_hash(32)
  \/ \E be \in BOOLEAN : nsync >= 0 /\ R_time_t(be)
  \/ \E peek \in BOOLEAN, levin \in BOOLEAN : nsync >= 0 /\ R_varint(peek, levin)

Spec == Init /\ [][Next]_vars

RECURSIVE SumLen(_)
SumLen(k) == IF k = 0 THEN 0 ELSE SumLen(k - 1) + fields[k].len

\* the value of the field is one its type admits
ValidField(f) ==
  /\ f.op = "uint_t" => InRange(f.expect, f.bits)
  /\ f.op = "varint" => (IF f.levin THEN InLevinRange(f.expect) ELSE ~f.expect.neg)
  /\ f.op = "hash" => (Len(f.expect) = 64 /\ \A i \in 1..64 : IsHexChar(f.expect[i]))
  /\ f.op = "time_t" => ~f.expect.time.neg

\* C8: a Reader built from the blob of a sequence of typed writes, doing the
\* matching typed reads in the same order, returns every written value, each
\* read consumes exactly the bytes its write appended, and after the last
\* read unreadBytes is 0.
C8_SequentialRoundTrip ==
  (last.side = "reader" /\ nsync >= 1 /\ \A i \in 1..Len(fields) : ValidField(fields[i]))
    => /\ last.err = "none"
       /\ last.ret = fields[nsync].expect
       /\ last.preOff = SumLen(nsync - 1)
       /\ r_offset = SumLen(nsync)
       /\ nsync = Len(fields) => unreadBytes(Rd) = 0

\* C9: with the cursor within [0, length] and fewer than b / 8 bytes unread,
\* Reader.uint_t(b, be) and Reader.int_t(b, be) throw and leave the cursor and
\* the buffer as they were before the call.
C9_InsufficientData ==
  (/\ last.side = "reader"
   /\ last.op \in {"uint_t", "int_t"}
   /\ last.preOff >= 0
   /\ last.preOff <= Len(last.preR)
   /\ 8 * (Len(last.preR) - last.preOff) < last.args.bits)
    => (last.err # "none" /\ r_offset = last.preOff /\ r_buffer = last.preR)

C9_Witness ==
  /\ last.side = "reader"
  /\ last.op = "uint_t"
  /\ last.args.bits = 64
  /\ last.preOff >= 8
  /\ Len(last.preR) - last.preOff \in 1..7
  /\ last.err # "none"
  /\ r_offset = last.preOff
  /\ r_buffer = last.preR

\* the number of bytes a positional read asks for
Requested == IF last.op = "time_t" THEN 8 ELSE last.args.count

\* C10: Reader.bytes(count), Reader.hex(count), Reader.hash(length) and
\* Reader.time_t(be) throw whenever fewer bytes than requested are unread.
C10_PositionalReadsFail ==
  (/\ last.side = "reader"
   /\ last.op \in {"bytes", "hex", "hash", "time_t"}
   /\ Len(last.preR) - last.preOff < Requested)
    => last.err # "none"

(***************************************************************************)
(* SpecCursor: a Reader over the blob of one write takes up to MaxCalls    *)
(* calls that read or move the cursor or change the buffer.                *)
(***************************************************************************)
CursorCounts == {1, 9}

CursorOffsets == {0, 2, 20}

AppendBlobs ==
  {[kind |-> "buffer", data |-> <<7, 200>>],
   [kind |-> "string", data |-> <<"0", "a">>],
   [kind |-> "string", data |-> <<"0">>]}

MayCall == r_made /\ r_calls < MaxCalls

NextCursor ==
  \/ \E b \in {8, 64} : FreshWriter /\ W_uint_t(SeqUint(b), b, FALSE)
  \/ FreshWriter /\ W_varint(BigInteger(300), FALSE)
  \/ NewReader
  \/ \E n \in CursorCounts : MayCall /\ R_bytes(n)
  \/ MayCall /\ R_hex(1)
  \/ MayCall /\ R_hash(32)
  \/ \E b \in {8, 64} : MayCall /\ R_uint_t(b, FALSE)
  \/ MayCall /\ R_int_t(8, FALSE)
  \/ MayCall /\ R_varint(FALSE, FALSE)
  \/ \E be \in BOOLEAN : MayCall /\ R_time_t(be)
  \/ \E n \in CursorCounts : MayCall /\ R_skip(n)
  \/ \E k \in CursorOffsets : MayCall /\ R_reset(k)
  \/ MayCall /\ R_compact(FALSE, 0)
  \/ \E k \in CursorOffsets : MayCall /\ R_compact(TRUE, k)
  \/ \E blob \in AppendBlobs : MayCall /\ R_append(blob)

SpecCursor == Init /\ [][NextCursor]_vars

\* C11: after calls of the Reader that have all returned without an error,
\* 0 <= offset <= length.
C11_CursorInRange ==
  (last.side = "reader" /\ r_clean) => (r_offset >= 0 /\ r_offset <= Len(r_buffer))

AutoValues ==
  SampleValues \cup {Nat256(Pow2m1(w)) : w \in Widths} \cup {Nat256(Pow2(w)) : w \in Widths}

NegValues ==
  {BigInteger(-1), BigInteger(-128), BigInteger(-32768), BigInteger(-2147483647),
   [neg |-> TRUE, mag |-> Pow2(64)]}

WrapperWidths == {8, 16, 32, 64, 128, 256, 512}

NextSize ==
  \/ \E x \in AutoValues \cup NegValues, be \in BOOLEAN : FreshWriter /\ W_uint_t(x, 0, be)
  \/ \E x \in NegValues, b \in Widths, be \in BOOLEAN : FreshWriter /\ W_uint_t(x, b, be)
  \/ \E x \in NegValues \cup {BigInteger(1), BigInteger(255)}, n \in WrapperWidths,
        be \in BOOLEAN : FreshWriter /\ W_uintN_t(x, n, be)
  \/ NewReader
  \/ \E b \in Widths, be \in BOOLEAN : nsync = 0 /\ R_uint_t(b, be)

SpecSize == Init /\ [][NextSize]_vars

\* the table of the widths uint_t chooses from
TableWidths == {8, 16, 32, 64, 128, 256, 512, 1024, 2048, 4096, 8192}

\* C12: Writer.uint_t(x) without a width and with x >= 0 appends w / 8 bytes,
\* w the smallest width of the table with x <= 2^w - 1; when x > 2^8192 - 1
\* it throws a range error and appends nothing.
C12_AutoSizing ==
  (LastWrite("uint_t") /\ last.args.bits = 0 /\ ~last.args.value.neg)
    => LET fit == {w \in TableWidths : CmpMag(last.args.value.mag, Pow2m1(w)) <= 0}
       IN IF fit = {} THEN last.err = "RangeError" /\ w_buffer = last.preW
          ELSE /\ last.err = "none"
               /\ \E w \in fit : /\ \A v \in fit : w <= v
                                 /\ 8 * Len(Appended) = w

C12_Witness ==
  /\ LastWrite("uint_t")
  /\ last.args.bits = 0
  /\ last.args.value = Nat256(Pow2(32))
  /\ Len(Appended) = 8

HashBufferLengths == {0, 1, 31, 32, 33, 64}

HashStringLengths == {0, 1, 32, 62, 63, 64, 65, 66, 128}

\* a string of hexadecimal digits, with the character c at position at
\* (none when at = 0)
HexString(n, at, c) ==
  [i \in 1..n |-> IF i = at THEN c ELSE HexDigits[(i % 16) + 1]]

HashInputs ==
  {[kind |-> "buffer", data |-> [i \in 1..n |-> (7 * i) % 256]] : n \in HashBufferLengths}
    \cup {[kind |-> "string", data |-> HexString(n, 0, "g")] : n \in HashStringLengths}
    \cup {[kind |-> "string", data |-> HexString(64, at, "g")] : at \in {1, 2, 33, 64}}
    \cup {[kind |-> "string", data |-> [i \in 1..64 |-> "z"]]}

NextHash ==
  \/ \E h \in HashInputs : CanWrite /\ W_hash(h)
  \/ NewReader
  \/ nsync >= 0 /\ R_hash(32)

SpecHash == Init /\ [][NextHash]_vars

\* C13: Writer.hash(v) returns false, throws nothing and leaves the buffer
\* of the Writer as it was when v is a Buffer of a length other than 32 or a
\* string of a length other than 64.
C13_HashLengthGuard ==
  (/\ LastWrite("hash")
   /\ \/ last.args.value.kind = "buffer" /\ Len(last.args.value.data) # 32
      \/ last.args.value.kind = "string" /\ Len(last.args.value.data) # 64)
    => (last.ret = FALSE /\ last.err = "none" /\ w_buffer = last.preW)

C13_Witness ==
  /\ LastWrite("hash")
  /\ last.args.value.kind = "buffer"
  /\ Len(last.args.value.data) = 31
  /\ last.ret = FALSE
  /\ Len(last.preW) = 32
  /\ w_buffer = last.preW

\* C14: whenever Writer.hash(v) returns true the Writer has grown by exactly
\* 32 bytes, for every 64-character string too.
C14_HashAppends32 ==
  (LastWrite("hash") /\ last.err = "none" /\ last.ret = TRUE)
    => Len(w_buffer) = Len(last.preW) + 32

\* the Reader before the last call
PreReader == [buffer |-> last.preR, offset |-> last.preOff]

\* C16: where a complete varint starts at the cursor, Reader.varint(true,
\* levin) returns the value Reader.varint(false, levin) would return and
\* leaves the cursor where it was, for levin = false and levin = true.
C16_PeekRestoresCursor ==
  (/\ last.side = "reader"
   /\ last.op = "varint"
   /\ last.args.peek
   /\ Reader_varint(PreReader, FALSE, last.args.levin).err = "none")
    => /\ last.err = "none"
       /\ last.ret = Reader_varint(PreReader, FALSE, last.args.levin).ret
       /\ r_offset = last.preOff

(***************************************************************************)
(* SpecWriter: a Writer takes calls that write, throw or return false, and *)
(* clear(); at most MaxFields fields are in the buffer.                    *)
(***************************************************************************)
WriterUints == {BigInteger(258), BigInteger(-1)}

WriterInts == {BigInteger(-128), BigInteger(200)}

WriterPayloads ==
  {[kind |-> "buffer", data |-> <<9, 200>>],
   [kind |-> "string", data |-> <<"0", "a", "z", "z">>]}

NextWriter ==
  \/ \E x \in WriterUints, b \in {0, 12} : CanWrite /\ W_uint_t(x, b, TRUE)
  \/ \E x \in WriterInts, b \in {0, 12, 64} : CanWrite /\ W_int_t(x, b, FALSE)
  \/ CanWrite /\ W_varint(BigInteger(300), FALSE)
  \/ CanWrite /\ W_varint(Nat256(Pow2(62)), TRUE)
  \/ \E h \in {[kind |-> "buffer", data |-> [i \in 1..n |-> i]] : n \in {31, 32}} :
        CanWrite /\ W_hash(h)
  \/ CanWrite /\ W_hex([kind |-> "string", data |-> <<"0", "a", "f", "f">>])
  \/ \E p \in WriterPayloads : CanWrite /\ W_write(p)
  \/ CanWrite /\ W_time_t(SeqSeconds, 999, FALSE)
  \/ CanWrite /\ W_time_t_negative(1, TRUE)
  \/ ~r_made /\ W_clear

SpecWriter == Init /\ [][NextWriter]_vars

\* C17: a call of the Writer other than clear() leaves the buffer it found
\* as a prefix of the new buffer, the length is the sum of the lengths of
\* the segments appended so far, and a call that throws or returns false
\* appends nothing.
C17_AppendOnly ==
  (last.side = "writer" /\ last.op # "clear")
    => /\ Len(w_buffer) >= Len(last.preW)
       /\ SubSeq(w_buffer, 1, Len(last.preW)) = last.preW
       /\ Len(w_buffer) = SumLen(Len(fields))
       /\ (last.err # "none" \/ last.ret = FALSE) => w_buffer = last.preW

C17_Witness ==
  /\ LastWrite("time_t")
  /\ last.err = "RangeError"
  /\ Len(fields) = 1
  /\ Len(last.preW) = 2
  /\ w_buffer = last.preW

(***************************************************************************)
(* SpecShare: a Writer is filled, a Reader is made of the Writer or of its *)
(* buffer, and both take further calls.                                    *)
(***************************************************************************)
MayWrite == Len(fields) < MaxFields

NextShare ==
  \/ MayWrite /\ W_time_t(SeqSeconds, 999, FALSE)
  \/ MayWrite /\ W_uint_t(SeqUint(8), 8, FALSE)
  \/ r_made /\ Len(w_buffer) > 0 /\ W_clear
  \/ Len(fields) > 0 /\ NewReaderFromWriter
  \/ Len(fields) > 0 /\ NewReaderFromBuffer
  \/ \E be \in BOOLEAN : MayCall /\ R_time_t(be)
  \/ MayCall /\ R_bytes(1)
  \/ MayCall /\ R_compact(FALSE, 0)
  \/ MayCall /\ R_append([kind |-> "buffer", data |-> <<7, 200>>])

SpecShare == Init /\ [][NextShare]_vars

\* C18: once a Reader is made of a Writer or of its buffer, no call of the
\* Reader changes the bytes of the Writer, and no call of the Writer
\* changes the buffer of the Reader.
C18_NoSharedState ==
  (r_made /\ last.op \notin {"new_writer", "new_buffer"})
    => /\ last.side = "reader" => w_buffer = last.preW
       /\ last.side = "writer" => r_buffer = last.preR

(***************************************************************************)
(* SpecAlias: a Reader r over eight bytes, a second handle new Reader(r),  *)
(* and calls through both handles.                                         *)
(***************************************************************************)
AliasBlob == [kind |-> "buffer", data |-> <<7, 200>>]

NextAlias ==
  \/ FreshWriter /\ W_uint_t(SeqUint(64), 64, FALSE)
  \/ Len(fields) > 0 /\ NewReader
  \/ NewReader2
  \/ \E n \in CursorCounts : MayCall /\ R_bytes(n)
  \/ MayCall /\ R_skip(2)
  \/ \E k \in CursorOffsets : MayCall /\ R_reset(k)
  \/ \E g \in BOOLEAN : MayCall /\ R_compact(g, 1)
  \/ MayCall /\ R_append(AliasBlob)
  \/ \E n \in CursorCounts : MayCall /\ R2_bytes(n)
  \/ MayCall /\ R2_skip(2)
  \/ \E k \in CursorOffsets : MayCall /\ R2_reset(k)
  \/ \E g \in BOOLEAN : MayCall /\ R2_compact(g, 1)
  \/ MayCall /\ R2_append(AliasBlob)

SpecAlias == Init /\ [][NextAlias]_vars

\* C19: new Reader(r) leaves the cursor and the buffer of r as they were,
\* and from then on the offset and the buffer seen through the new handle
\* are those seen through r, whichever handle the calls are made through.
C19_ReaderAlias ==
  r2_ref # 0
    => /\ Rd2.offset = r_offset
       /\ Rd2.buffer = r_buffer
       /\ last.op = "new_reader" => (r_offset = last.preOff /\ r_buffer = last.preR)

C19_Witness ==
  /\ r2_ref # 0
  /\ last.side = "reader2"
  /\ last.op = "bytes"
  /\ last.err = "none"
  /\ last.preOff = 2
  /\ r_offset = 3
  /\ Rd2.offset = 3

\* the bytes a byte sequence or a string of pairs of hexadecimal digits
\* stands for
BlobBytes(blob) ==
  IF blob.kind = "buffer" THEN blob.data
  ELSE [i \in 1..(Len(blob.data) \div 2) |->
          16 * HexVal(blob.data[2 * i - 1]) + HexVal(blob.data[2 * i])]

IsHexBlob(blob) ==
  \/ blob.kind = "buffer"
  \/ /\ blob.kind = "string"
     /\ Len(blob.data) % 2 = 0
     /\ \A i \in 1..Len(blob.data) : IsHexChar(blob.data[i])

\* C21: Reader.append(d) of a byte sequence or of an even-length hexadecimal
\* string returns without an error, leaves the cursor where it was, makes
\* the buffer the old buffer followed by d, so that unreadBytes grows by
\* the length of d when the cursor was within the old buffer, and a read of
\* that many bytes at the old end returns d.
C21_AppendFrame ==
  (last.side = "reader" /\ last.op = "append" /\ IsHexBlob(last.args.value))
    => LET d == BlobBytes(last.args.value)
       IN /\ last.err = "none"
          /\ r_offset = last.preOff
          /\ r_buffer = last.preR \o d
          /\ (last.preOff >= 0 /\ last.preOff <= Len(last.preR))
               => unreadBytes(Rd) = unreadBytes(PreReader) + Len(d)
          /\ r_offset = Len(last.preR) => Reader_bytes(Rd, Len(d)).ret = d

C21_Witness ==
  /\ last.side = "reader"
  /\ last.op = "append"
  /\ last.args.value.kind = "string"
  /\ last.err = "none"
  /\ Len(last.preR) = 2
  /\ last.preOff = 1
  /\ r_buffer = last.preR \o <<10>>

(***************************************************************************)
(* SpecWidth: integers written and read with widths that are and are not   *)
(* positive multiples of 8.                                                *)
(***************************************************************************)
WriteBits == {12, -8, 16}

ReadBits == {0, 8, 12, -8}

NextWidth ==
  \/ \E b \in WriteBits, be \in BOOLEAN : CanWrite /\ W_uint_t(BigInteger(258), b, be)
  \/ \E b \in WriteBits : CanWrite /\ W_int_t(BigInteger(-2), b, FALSE)
  \/ Len(fields) > 0 /\ NewReader
  \/ \E b \in ReadBits, be \in BOOLEAN : MayCall /\ R_uint_t(b, be)
  \/ \E b \in ReadBits : MayCall /\ R_int_t(b, FALSE)
  \/ MayCall /\ R_bytes(1)

SpecWidth == Init /\ [][NextWidth]_vars

\* the call is uint_t or int_t with a width that is given and is not a
\* positive multiple of 8 (a width of 0 given to the Writer stands for none)
BadWidthCall ==
  /\ last.op \in {"uint_t", "int_t"}
  /\ \/ last.side = "writer" /\ last.args.bits # 0
        /\ (last.args.bits % 8 # 0 \/ last.args.bits < 0)
     \/ last.side = "reader" /\ (last.args.bits % 8 # 0 \/ last.args.bits <= 0)

\* C22: uint_t and int_t of the Reader and of the Writer, called with a
\* width that is not a positive multiple of 8, raise an error and leave the
\* cursor and the buffers as they were.
C22_WidthValidation ==
  BadWidthCall
    => /\ last.err # "none"
       /\ w_buffer = last.preW
       /\ r_buffer = last.preR
       /\ r_offset = last.preOff

(***************************************************************************)
(* SpecParse: a Reader made of a string, well formed or not, and reads of  *)
(* varints from it.                                                        *)
(***************************************************************************)
ParseStrings ==
  {<<>>,
   <<"0", "a">>,
   <<"0", "a", "1">>,
   <<"0", "a", "z", "z">>,
   <<"z", "z">>,
   <<"8", "0">>,
   <<"f", "f", "8", "0">>,
   <<"a", "c", "0", "2">>,
   <<"8", "0", "f", "f", "7", "f">>,
   <<"f", "f", "0", "1", "8", "1">>}

NextParse ==
  \/ \E s \in ParseStrings : NewReaderFromString(s)
  \/ \E peek \in BOOLEAN : MayCall /\ R_varint(peek, FALSE)
  \/ MayCall /\ R_bytes(1)
  \/ \E n \in CursorCounts : MayCall /\ R_skip(n)

SpecParse == Init /\ [][NextParse]_vars

\* C23: new Reader(s) of a string of odd length, or with a character that
\* is not a hexadecimal digit, raises an error and makes no Reader.
C23_MalformedHexRejected ==
  (last.op = "new_string" /\ ~IsHexBlob(last.args.value))
    => (last.err # "none" /\ ~r_made)

\* no byte below 0x80 at or after the offset
NoTerminator(buf, offset) ==
  \A i \in 1..Len(buf) : i > offset => buf[i] >= 128

\* C24: Varint.decode(buf) raises a RangeError when buf is empty or all its
\* bytes have the bit 0x80, and Reader.varint() raises an error when there
\* is no byte below 0x80 at or after the cursor.
C24_TruncatedVarintFails ==
  /\ (r_made /\ NoTerminator(r_buffer, 0)) => decode(r_buffer).err = "RangeError"
  /\ (/\ last.side = "reader"
      /\ last.op = "varint"
      /\ ~last.args.levin
      /\ last.preOff >= 0
      /\ NoTerminator(last.preR, last.preOff))
       => last.err # "none"

C24_Witness ==
  /\ last.side = "reader"
  /\ last.op = "varint"
  /\ last.preR = <<255, 1, 129>>
  /\ last.preOff = 2
  /\ last.err = "RangeError"

\* the n bytes of x, the most significant first: byte i (from 0) is
\* floor(x / 256^(n-1-i)) mod 256
BigEndianBytes(x, n) == [i \in 1..n |-> Limb(x.mag, n + 1 - i)]

\* C25: for 0 <= x <= 2^b - 1 and n = b / 8, Writer.uint_t(x, b, true)
\* appends the n bytes of x with the most significant first, and
\* Writer.uint_t(x, b, false) appends the reverse of that sequence.
C25_UintByteLayout ==
  (/\ LastWrite("uint_t")
   /\ last.args.bits > 0
   /\ last.args.bits % 8 = 0
   /\ InRange(last.args.value, last.args.bits))
    => LET n == last.args.bits \div 8
           msb == BigEndianBytes(last.args.value, n)
       IN /\ last.err = "none"
          /\ last.ret = TRUE
          /\ Appended = IF last.args.be THEN msb ELSE Reverse(msb)

C25_Witness ==
  /\ LastWrite("uint_t")
  /\ last.args.bits = 32
  /\ last.args.be
  /\ last.args.value = Nat256(<<1, 255>>)
  /\ Appended = <<0, 0, 255, 1>>

(***************************************************************************)
(* SpecInt: one int_t written by a fresh Writer, a Reader built from the   *)
(* blob, one int_t read.                                                   *)
(***************************************************************************)
IntWidths == {8, 16, 32, 64}

\* -2^(b-1), -1, 0, 1, 2^(b-1) - 1 and a value of several bytes
IntValues(b) ==
  {[neg |-> TRUE, mag |-> Pow2(b - 1)], BigInteger(-1), Zero, BigInteger(1),
   Nat256(Pow2m1(b - 1)), [neg |-> TRUE, mag |-> Pow2m1(b - 2)]}

NextInt ==
  \/ \E b \in IntWidths, be \in BOOLEAN : \E x \in IntValues(b) :
        FreshWriter /\ W_int_t(x, b, be)
  \/ NewReader
  \/ \E b \in IntWidths, be \in BOOLEAN : nsync = 0 /\ R_int_t(b, be)

SpecInt == Init /\ [][NextInt]_vars

\* -2^(bits-1) <= value <= 2^(bits-1) - 1
InIntRange(value, bits) ==
  IF value.neg THEN CmpMag(value.mag, Pow2(bits - 1)) <= 0
  ELSE CmpMag(value.mag, Pow2m1(bits - 1)) <= 0

\* C26: for every width b that is a positive multiple of 8, both byte
\* orders and every x with -2^(b-1) <= x <= 2^(b-1) - 1, Writer.int_t(x, b,
\* be) returns true and appends b / 8 bytes, and Reader.int_t(b, be) over
\* the blob returns x.
C26_IntRoundTrip ==
  /\ (/\ LastWrite("int_t")
      /\ last.args.bits > 0
      /\ last.args.bits % 8 = 0
      /\ InIntRange(last.args.value, last.args.bits))
       => /\ last.err = "none"
          /\ last.ret = TRUE
          /\ Len(Appended) = last.args.bits \div 8
  /\ (ReadBack("int_t") /\ InIntRange(fields[1].expect, fields[1].bits))
       => (last.err = "none" /\ last.ret = fields[1].expect)

\* the number of bytes of the encoded value the read starts at
Consumed(op, args, buf, offset) ==
  IF op \in {"uint_t", "int_t"} THEN args.bits \div 8
  ELSE IF op \in {"bytes", "hex", "hash"} THEN args.count
  ELSE IF op = "time_t" THEN 8
  ELSE IF ~args.levin
  THEN MinOf({i \in (offset + 1)..Len(buf) : buf[i] < 128}) - offset
  ELSE LET class == buf[offset + 1] % 4
       IN 1 + (IF class = 0 THEN 0 ELSE IF class = 1 THEN 1 ELSE IF class = 2 THEN 3 ELSE 7)

C28_FixedWidthRespected ==
  (/\ LastWrite("uint_t")
   /\ last.args.bits > 0
   /\ last.args.bits % 8 = 0
   /\ ~last.args.value.neg)
    => \/ last.err # "none" /\ w_buffer = last.preW
       \/ last.err = "none" /\ Len(Appended) = last.args.bits \div 8

(***************************************************************************)
(* SpecReparse: a Reader takes a sequence of at most MaxCalls reads, then  *)
(* reset(0), then the same reads again.                                    *)
(***************************************************************************)
\* the positions of the calls of reset in the log
Resets == {i \in 1..Len(r_log) : r_log[i].op = "reset"}

\* the call may be made: in the first pass any read, after reset(0) the
\* read made at the same position of the first pass
MayRead(op, args) ==
  /\ r_made
  /\ IF Resets = {} THEN Len(r_log) < MaxCalls
     ELSE LET k == MinOf(Resets) - 1
          IN /\ Len(r_log) < 2 * k + 1
             /\ r_log[Len(r_log) - k].op = op
             /\ r_log[Len(r_log) - k].args = args

ReadArgs(bits, be, count, peek) ==
  [NoArgs EXCEPT !.bits = bits, !.be = be, !.count = count, !.peek = peek]

NextReparse ==
  \/ CanWrite /\ W_time_t(SeqSeconds, 999, FALSE)
  \/ CanWrite /\ W_varint(BigInteger(300), FALSE)
  \/ Len(fields) > 0 /\ NewReader
  \/ \E be \in BOOLEAN : MayRead("time_t", ReadArgs(0, be, 0, FALSE)) /\ R_time_t(be)
  \/ \E be \in BOOLEAN : MayRead("uint_t", ReadArgs(16, be, 0, FALSE)) /\ R_uint_t(16, be)
  \/ MayRead("int_t", ReadArgs(8, FALSE, 0, FALSE)) /\ R_int_t(8, FALSE)
  \/ \E peek \in BOOLEAN : MayRead("varint", ReadArgs(0, FALSE, 0, peek)) /\ R_varint(peek, FALSE)
  \/ MayRead("bytes", ReadArgs(0, FALSE, 1, FALSE)) /\ R_bytes(1)
  \/ MayRead("hex", ReadArgs(0, FALSE, 1, FALSE)) /\ R_hex(1)
  \/ MayRead("hash", ReadArgs(0, FALSE, 32, FALSE)) /\ R_hash(32)
  \/ r_made /\ Resets = {} /\ Len(r_log) > 0 /\ R_reset(0)

SpecReparse == Init /\ [][NextReparse]_vars

ReadOps == {"bytes", "hex", "hash", "uint_t", "int_t", "varint", "time_t"}

\* C29: when a Reader has made a sequence S of reads that all succeeded,
\* then reset(0), then S again, the second pass has returned the values of
\* the first, and the buffer after each pass is the buffer before the first.
C29_ReparseDeterministic ==
  LET n == Len(r_log)
      k == (n - 1) \div 2
  IN (/\ n >= 3
      /\ n = 2 * k + 1
      /\ r_log[k + 1].op = "reset"
      /\ r_log[k + 1].args.count = 0
      /\ \A i \in 1..k : /\ r_log[i].op \in ReadOps
                          /\ r_log[i].err = "none"
                          /\ r_log[k + 1 + i].op = r_log[i].op
                          /\ r_log[k + 1 + i].args = r_log[i].args)
       => /\ \A i \in 1..k : /\ r_log[k + 1 + i].err = "none"
                              /\ r_log[k + 1 + i].ret = r_log[i].ret
          /\ r_log[k + 1].buffer = r_log[1].buffer
          /\ r_buffer = r_log[1].buffer

(***************************************************************************)
(* SpecDrain: a Writer is filled and cleared between calls of _read(size); *)
(* no other method runs while the loop of _read does.  SpecDrainFair adds  *)
(* that the loop, once entered, goes on.                                   *)
(***************************************************************************)
ReadSizes == {1, 3, 40}

Idle == ~w_stream.running

NextDrain ==
  \/ Idle /\ CanWrite /\ W_uint_t(BigInteger(258), 16, TRUE)
  \/ Idle /\ CanWrite /\ W_hash([kind |-> "buffer", data |-> [i \in 1..32 |-> i]])
  \/ Idle /\ Len(w_buffer) > 0 /\ W_clear
  \/ \E size \in ReadSizes : W_read(size)
  \/ W_read_round

SpecDrain == Init /\ [][NextDrain]_vars

SpecDrainFair == SpecDrain /\ WF_vars(W_read_round)

\* the bytes of the chunks pushed, in order
RECURSIVE PushedBytes(_)
PushedBytes(p) == IF p = <<>> THEN <<>> ELSE p[1].data \o PushedBytes(Tail(p))

\* what a _read(size) entered with readIndex <= length has pushed so far:
\* chunks of 1 to size bytes that are the bytes from the read index at entry
\* up to the present read index, and, once the loop is left, one end marker
\* after them all, with the read index at the length of the buffer
DrainInOrder ==
  (last.op = "_read" /\ w_stream.size >= 1 /\ w_stream.from <= Len(w_buffer))
    => LET p == w_stream.pushed
           n == Len(p)
       IN /\ \A i \in 1..n : IF p[i].eos THEN i = n /\ ~w_stream.running
                              ELSE Len(p[i].data) >= 1 /\ Len(p[i].data) <= w_stream.size
          /\ w_stream.readIndex <= Len(w_buffer)
          /\ PushedBytes(p) = SubSeq(w_buffer, w_stream.from + 1, w_stream.readIndex)
          /\ ~w_stream.running
               => /\ n >= 1
                  /\ p[n].eos
                  /\ w_stream.readIndex = Len(w_buffer)

\* C30: Writer._read(size) with size >= 1, entered with readIndex <= length,
\* leaves its loop after finitely many rounds, having pushed the bytes from
\* readIndex to the end of the buffer in order, each once, in chunks of at
\* most size bytes, then one end-of-stream marker, with readIndex at the
\* length of the buffer.
C30_DrainTerminates ==
  /\ []DrainInOrder
  /\ w_stream.running ~> ~w_stream.running

C30_Witness ==
  /\ last.op = "_read"
  /\ ~w_stream.running
  /\ w_stream.size = 3
  /\ w_stream.from = 2
  /\ Len(w_buffer) = 34
  /\ Len(w_stream.pushed) = 12
  /\ w_stream.readIndex = 34

============================================================================
